---- MODULE Spec2Model ----
(***************************************************************************)
(* A model of proxy.py: a sequential caching forward proxy.                *)
(*                                                                         *)
(* Python strings are TLA+ strings; the string methods the program uses    *)
(* (split, strip, `in`, slicing, +) are operators that compute what the    *)
(* methods compute.  A Python value whose type matters is a record         *)
(* [t |-> type, v |-> value]; a call that may raise returns Ret(v) or       *)
(* Raise(e).  The methods of ProxyServer are operators with the source's   *)
(* names; handle_request is one operator for the whole handler, composed   *)
(* of the blocks of its body.  A value a method computes once and uses     *)
(* several times is the parameter of an auxiliary operator.                *)
(***************************************************************************)
EXTENDS Integers, Sequences, FiniteSets, TLC

VARIABLES
    proc,      \* the process: "running", "crashed" (uncaught exception), "exited" (sys.exit)
    pc,        \* position of the accept loop: "accept" or "handle"
    nconn,     \* number of connections accepted so far
    conn,      \* the environment of the current connection (client bytes, origin behaviour)
    out,       \* what the last run handler did (responses sent, socket closed, exception, ...)
    cache,     \* the files under the working directory: path -> content
    dirs,      \* the directories under the working directory
    got200,    \* history: cache keys for which an origin response with status 200 was received
    call       \* the method call made last by the method-level specification

vars == <<proc, pc, nconn, conn, out, cache, dirs, got200, call>>

(***************************************************************************)
(* Bounds of the model.                                                    *)
(***************************************************************************)
MaxConns == 3

(***************************************************************************)
(* Python values and exceptions.                                           *)
(***************************************************************************)
PyStr(s) == [t |-> "str", v |-> s]
PyBytes(s) == [t |-> "bytes", v |-> s]
PyInt(n) == [t |-> "int", v |-> n]
None == [t |-> "NoneType", v |-> ""]

Ret(x) == [exc |-> "none", val |-> x]
Raise(e) == [exc |-> e, val |-> None]
Ok(r) == r.exc = "none"

\* Python's == on values of the built-in types: values of different types are unequal.
py_eq(a, b) == a.t = b.t /\ a.v = b.v

\* Python's + on str and bytes operands: mixing the two raises TypeError.
py_add(a, b) == IF a.t = b.t THEN Ret([t |-> a.t, v |-> a.v \o b.v]) ELSE Raise("TypeError")

\* The exceptions socket.error (OSError) covers, the only ones accept_connection catches.
OSErrors == {"OSError", "FileExistsError"}

(***************************************************************************)
(* Python string methods.                                                  *)
(***************************************************************************)
CRLF == "\r\n"
Whitespace == {" ", "\t", "\r", "\n"}
Digits == <<"0", "1", "2", "3", "4", "5", "6", "7", "8", "9">>

Min(a, b) == IF a < b THEN a ELSE b

\* s[i:] and s[:n] with 0-based Python indices.
From(s, i) == SubSeq(s, i + 1, Len(s))
Upto(s, n) == SubSeq(s, 1, Min(n, Len(s)))

StartsAt(s, sub, i) == i + Len(sub) - 1 <= Len(s) /\ SubSeq(s, i, i + Len(sub) - 1) = sub

\* 1-based position of the first occurrence of sub in s at or after i, 0 when there
\* is none.
RECURSIVE FindFrom(_, _, _)
FindFrom(s, sub, i) ==
    IF i + Len(sub) - 1 > Len(s) THEN 0
    ELSE IF StartsAt(s, sub, i) THEN i
    ELSE FindFrom(s, sub, i + 1)

Find(s, sub) == FindFrom(s, sub, 1)

\* sub in s
Contains(sub, s) == Find(s, sub) # 0

\* s.split(sep); SplitAt is given the position of the first separator.
RECURSIVE Split(_, _)
SplitAt(s, sep, i) ==
    IF i = 0 THEN <<s>>
    ELSE <<SubSeq(s, 1, i - 1)>> \o Split(SubSeq(s, i + Len(sep), Len(s)), sep)
Split(s, sep) == SplitAt(s, sep, Find(s, sep))

\* s.strip()
RECURSIVE LStrip(_)
LStrip(s) == IF Len(s) > 0 /\ SubSeq(s, 1, 1) \in Whitespace THEN LStrip(From(s, 1)) ELSE s
RECURSIVE RStrip(_)
RStrip(s) ==
    IF Len(s) > 0 /\ SubSeq(s, Len(s), Len(s)) \in Whitespace
    THEN RStrip(SubSeq(s, 1, Len(s) - 1)) ELSE s
Strip(s) == RStrip(LStrip(s))

\* The least position where one of the characters of `stops` occurs in s, Len(s) + 1
\* when none does.
RECURSIVE FirstFrom(_, _, _)
FirstFrom(s, stops, i) ==
    IF i > Len(s) THEN Len(s) + 1
    ELSE IF SubSeq(s, i, i) \in stops THEN i
    ELSE FirstFrom(s, stops, i + 1)

FirstOf(s, stops) == FirstFrom(s, stops, 1)

\* s.split(): the whitespace-delimited fields of s; FieldsAt is given s without its
\* leading whitespace and the end of its first field.
RECURSIVE Fields(_)
FieldsAt(t, n) ==
    IF t = "" THEN <<>> ELSE <<SubSeq(t, 1, n - 1)>> \o Fields(SubSeq(t, n, Len(t)))
Fields(s) == FieldsAt(LStrip(s), FirstOf(LStrip(s), Whitespace))

\* str(n) for n >= 0
RECURSIVE str(_)
str(n) == IF n < 10 THEN Digits[n + 1] ELSE str(n \div 10) \o Digits[(n % 10) + 1]

\* "".join(lines)
RECURSIVE Join(_)
Join(lines) == IF lines = <<>> THEN "" ELSE Head(lines) \o Join(Tail(lines))

\* "".join(line + "\r\n" for line in lines)
RECURSIVE JoinCRLF(_)
JoinCRLF(lines) == IF lines = <<>> THEN "" ELSE Head(lines) \o CRLF \o JoinCRLF(Tail(lines))

\* sum(len(line) for line in lines)
RECURSIVE SumLen(_)
SumLen(lines) == IF lines = <<>> THEN 0 ELSE Len(Head(lines)) + SumLen(Tail(lines))

\* lines.index(x), 1-based; 0 where Python raises ValueError.
RECURSIVE IndexFrom(_, _, _)
IndexFrom(lines, x, i) ==
    IF i > Len(lines) THEN 0
    ELSE IF lines[i] = x THEN i
    ELSE IndexFrom(lines, x, i + 1)

ListIndex(lines, x) == IndexFrom(lines, x, 1)

\* any(sub in line for line in lines)
AnyContains(sub, lines) == \E i \in 1..Len(lines) : Contains(sub, lines[i])

(***************************************************************************)
(* ResponseTransformer: add_length_and_cache_to_header, create_500_response *)
(***************************************************************************)
\* Lines 434-446: Content-Length, the summed length of the body lines, is added
\* when no header line contains "Content-Length".
with_length(headers, body) ==
    IF ~AnyContains("Content-Length", headers)
    THEN Append(headers, "Content-Length: " \o str(SumLen(body)))
    ELSE headers

\* Lines 449-452
with_close(headers) ==
    IF ~AnyContains("Connection: close", headers)
    THEN Append(headers, "Connection: close")
    ELSE headers

\* Lines 455-458
with_hit(headers, in_cache) ==
    Append(headers, IF in_cache THEN "Cache-Hit: 1" ELSE "Cache-Hit: 0")

\* Lines 431-473, given the lines of the response and the index of the first empty one.
normalize_at(response_split, last, in_cache) ==
    IF last = 0 THEN Raise("ValueError")
    ELSE Ret(JoinCRLF(with_hit(with_close(with_length(
                          SubSeq(response_split, 1, last - 1),
                          SubSeq(response_split, last + 1, Len(response_split)))),
                      in_cache))
             \o CRLF \o Join(SubSeq(response_split, last + 1, Len(response_split))))

normalize_split(response_split, in_cache) ==
    normalize_at(response_split, ListIndex(response_split, ""), in_cache)

add_length_and_cache_to_header(response, in_cache) ==
    normalize_split(Split(response, CRLF), in_cache)

response500 ==
    "HTTP/1.1 500 Internal Server Error\r\n" \o "Content-Length: 0\r\n"
        \o "Connection: close\r\n" \o "Cache-Hit: 0\r\n\r\n"

\* Lines 390-407, given the lines of the response with the status line replaced and
\* the index of the first empty one.
rebuild_500(response_split, last) ==
    IF last = 0 THEN Raise("ValueError")
    ELSE add_length_and_cache_to_header(
             JoinCRLF(SubSeq(response_split, 1, last)) \o CRLF
                 \o Join(SubSeq(response_split, last + 1, Len(response_split))),
             FALSE)

replace_status_line(response_split) ==
    rebuild_500(response_split, ListIndex(response_split, ""))

\* response is None or PyStr(s).
create_500_response(response) ==
    IF py_eq(response, None) THEN Ret(response500)
    ELSE replace_status_line(<<"HTTP/1.1 500 Internal Server Error">>
                                \o Tail(Split(response.v, CRLF)))

(***************************************************************************)
(* RequestParser/Validator: check_request_validity                         *)
(***************************************************************************)
valid_lines(request_split) ==
    IF Len(request_split) # 3 THEN FALSE
    ELSE IF Strip(request_split[1]) # "GET" THEN FALSE
    ELSE IF Upto(Strip(request_split[3]), 5) # "HTTP/" THEN FALSE
    ELSE IF Strip(request_split[3]) \notin {"HTTP/1.1", "HTTP/1.0", "HTTP/0.9"} THEN FALSE
    ELSE IF ~Contains("http://", Strip(request_split[2])) THEN FALSE
    ELSE TRUE

check_request_validity(request) == valid_lines(Split(request, CRLF))

\* response.split("\r\n")[0].split(" ")[1], a str
status_field(parts) == IF Len(parts) < 2 THEN Raise("IndexError") ELSE Ret(PyStr(parts[2]))

get_status_code(response) == status_field(Split(Split(response, CRLF)[1], " "))

(***************************************************************************)
(* urllib.parse.urlparse, for URLs without params, fragment or userinfo:   *)
(* scheme ":" then, after "//", the netloc up to the first "/" or "?",     *)
(* then the path up to "?", then the query.                                *)
(***************************************************************************)
UpperCase == "ABCDEFGHIJKLMNOPQRSTUVWXYZ"
LowerCase == "abcdefghijklmnopqrstuvwxyz"

\* s.lower()
LowerChar(c, i) == IF i = 0 THEN c ELSE SubSeq(LowerCase, i, i)
RECURSIVE Lower(_)
Lower(s) ==
    IF s = "" THEN ""
    ELSE LowerChar(SubSeq(s, 1, 1), Find(UpperCase, SubSeq(s, 1, 1))) \o Lower(From(s, 1))

IsDigits(s) == \A i \in 1..Len(s) : Find("0123456789", SubSeq(s, i, i)) # 0

\* int(s) for a string of digits
RECURSIVE int(_)
int(s) ==
    IF s = "" THEN 0
    ELSE 10 * int(SubSeq(s, 1, Len(s) - 1)) + (Find("0123456789", SubSeq(s, Len(s), Len(s))) - 1)

url_query(scheme, netloc, tail, q) ==
    [scheme |-> scheme,
     netloc |-> netloc,
     path |-> IF q = 0 THEN tail ELSE SubSeq(tail, 1, q - 1),
     query |-> IF q = 0 THEN "" ELSE From(tail, q)]

\* after: the URL after "//" or, without one, after the scheme; n: where its netloc ends.
url_netloc(scheme, after, n) ==
    url_query(scheme, SubSeq(after, 1, n - 1), SubSeq(after, n, Len(after)),
              Find(SubSeq(after, n, Len(after)), "?"))

url_rest(scheme, rest) ==
    IF Upto(rest, 2) = "//"
    THEN url_netloc(scheme, From(rest, 2), FirstOf(From(rest, 2), {"/", "?"}))
    ELSE url_netloc(scheme, rest, 1)

url_scheme(url, colon) ==
    IF colon > 1 /\ FirstOf(url, {"/", "?"}) > colon
    THEN url_rest(Lower(SubSeq(url, 1, colon - 1)), From(url, colon))
    ELSE url_rest("", url)

urlparse(url) == url_scheme(url, Find(url, ":"))

\* ParseResult.hostname: the netloc before ":", lower-cased; None when empty.
host_before(netloc, c) ==
    IF (IF c = 0 THEN netloc ELSE SubSeq(netloc, 1, c - 1)) = "" THEN None
    ELSE PyStr(Lower(IF c = 0 THEN netloc ELSE SubSeq(netloc, 1, c - 1)))

hostname(parsed) == host_before(parsed.netloc, Find(parsed.netloc, ":"))

\* ParseResult.port: the digits after ":", None when there are none; raises ValueError
\* for a port that is no number or is out of range.
port_after(netloc, c) ==
    IF c = 0 \/ From(netloc, c) = "" THEN Ret(None)
    ELSE IF ~IsDigits(From(netloc, c)) THEN Raise("ValueError")
    ELSE IF int(From(netloc, c)) > 65535 THEN Raise("ValueError")
    ELSE Ret(PyInt(int(From(netloc, c))))

port(parsed) == port_after(parsed.netloc, Find(parsed.netloc, ":"))

(***************************************************************************)
(* The attributes that some statement of the class assigns on self.        *)
(* self.url_parsed is read (lines 320, 540, 541) and never assigned.       *)
(***************************************************************************)
InstanceAttributes ==
    {"port_num", "proxy_socket", "request_method", "request_version", "request_url_parsed"}

(***************************************************************************)
(* RequestParser/Validator: parse_request.  The value returned is the      *)
(* state of self's request_* attributes after the call.                    *)
(***************************************************************************)
\* Lines 316-320, given the value of request_url_parsed.port.
default_port(req, p) ==
    IF ~Ok(p) THEN Raise(p.exc)
    ELSE IF py_eq(p.val, None)
    THEN \* netloc is replaced, then self.url_parsed is read
         IF "url_parsed" \notin InstanceAttributes THEN Raise("AttributeError")
         ELSE Ret([req EXCEPT !.request_url_parsed.netloc = @ \o ":80"])
    ELSE Ret(req)

\* Line 313
parse_url(request_method, request_version, parsed) ==
    default_port([request_method |-> request_method,
                  request_version |-> request_version,
                  request_url_parsed |-> parsed],
                 port(parsed))

\* Lines 309-311
parse_fields(request_split) ==
    IF Len(request_split) < 3 THEN Raise("IndexError")
    ELSE parse_url(Strip(request_split[1]), Strip(request_split[3]),
                   urlparse(Strip(request_split[2])))

parse_request(request) == parse_fields(Split(request, " "))

(***************************************************************************)
(* The filesystem under the working directory.  fs.files maps the path of  *)
(* each regular file to its content, fs.dirs is the set of directories;    *)
(* a path is its segments joined by "/", without "." and empty segments,   *)
(* as pathlib.Path and the operating system resolve it.                    *)
(***************************************************************************)
RECURSIVE JoinPath(_)
JoinPath(segs) ==
    IF segs = <<>> THEN ""
    ELSE IF Len(segs) = 1 THEN Head(segs)
    ELSE Head(segs) \o "/" \o JoinPath(Tail(segs))

IsSegment(seg) == seg \notin {"", "."}

NormPath(path) == JoinPath(SelectSeq(Split(path, "/"), IsSegment))

NoFiles == [f \in {} |-> ""]
FreshFs == [files |-> NoFiles, dirs |-> {"cache"}]

file_at(fs, norm) == norm \in DOMAIN fs.files
dir_at(fs, norm) == norm = "" \/ norm \in fs.dirs

is_file(fs, path) == file_at(fs, NormPath(path))
is_dir(fs, path) == dir_at(fs, NormPath(path))

\* "./cache/" + hostname + path, the cache key of a parsed request (lines 485, 506, 602).
path_under(sum, path) == IF Ok(sum) THEN Ret(sum.val.v \o path) ELSE sum

cache_path(req) ==
    path_under(py_add(PyStr("./cache/"), hostname(req.request_url_parsed)),
               req.request_url_parsed.path)

(***************************************************************************)
(* CacheStore: check_file_in_cache, get_response_from_cache,               *)
(* store_response_in_cache                                                 *)
(***************************************************************************)
file_exists(path, fs) == IF Ok(path) THEN Ret(is_file(fs, path.val)) ELSE Raise(path.exc)

check_file_in_cache(req, fs) == file_exists(cache_path(req), fs)

\* read_ok: whether the operating system lets the file be opened and read.
read_file(path, fs, read_ok) ==
    IF ~Ok(path) THEN Raise(path.exc)
    ELSE IF ~(read_ok /\ is_file(fs, path.val)) THEN Raise("SystemExit")
    ELSE Ret(fs.files[NormPath(path.val)])

get_response_from_cache(req, fs, read_ok) == read_file(cache_path(req), fs, read_ok)

\* The loop of lines 609-616 from its i-th round on (1-based): path_to_file is the
\* string built so far; the result is the directories and the final string, or the
\* exception of a mkdir on the path of a regular file.
RECURSIVE make_directories(_, _, _, _)
make_directory(path_split, i, directory, norm, fs) ==
    IF dir_at(fs, norm) THEN make_directories(path_split, i + 1, directory \o "/", fs)
    ELSE IF file_at(fs, norm)
    THEN [exc |-> "FileExistsError", fs |-> fs, path_to_file |-> directory]
    ELSE make_directories(path_split, i + 1, directory \o "/",
                          [fs EXCEPT !.dirs = @ \cup {norm}])

make_directories(path_split, i, path_to_file, fs) ==
    IF i > Len(path_split) - 1 THEN [exc |-> "none", fs |-> fs, path_to_file |-> path_to_file]
    ELSE make_directory(path_split, i, path_to_file \o path_split[i],
                        NormPath(path_to_file \o path_split[i]), fs)

\* write_body with the file opened for appending ("ab") instead of "wb".
appended(fs, norm, body) == IF file_at(fs, norm) THEN fs.files[norm] \o body ELSE body

write_body_appending(path_to_file, response_split, last, fs, write_ok) ==
    IF last = 0 THEN [exc |-> "ValueError", fs |-> fs]
    ELSE IF ~(write_ok /\ SubSeq(path_to_file, Len(path_to_file), Len(path_to_file)) # "/"
                       /\ ~is_dir(fs, path_to_file))
    THEN [exc |-> "SystemExit", fs |-> fs]
    ELSE [exc |-> "none",
          fs |-> [fs EXCEPT !.files =
                     (NormPath(path_to_file) :>
                          appended(fs, NormPath(path_to_file),
                                   Join(SubSeq(response_split, last + 1,
                                               Len(response_split))))) @@ @]]

\* Lines 623-633, given the path string of the file: the body, the lines after the
\* first empty one, is written without line terminators.
\* write_ok: whether the operating system lets the file be created and written.
write_body(path_to_file, response_split, last, fs, write_ok) ==
    IF last = 0 THEN [exc |-> "ValueError", fs |-> fs]
    ELSE IF ~(write_ok /\ SubSeq(path_to_file, Len(path_to_file), Len(path_to_file)) # "/"
                       /\ ~is_dir(fs, path_to_file))
    THEN [exc |-> "SystemExit", fs |-> fs]
    ELSE [exc |-> "none",
          fs |-> [fs EXCEPT !.files =
                     (NormPath(path_to_file) :>
                          Join(SubSeq(response_split, last + 1, Len(response_split)))) @@ @]]

store_body(walked, name, response_split, write_ok) ==
    IF walked.exc # "none" THEN [exc |-> walked.exc, fs |-> walked.fs]
    ELSE write_body(walked.path_to_file \o name, response_split,
                    ListIndex(response_split, ""), walked.fs, write_ok)

store_at(path_split, response, fs, write_ok) ==
    store_body(make_directories(path_split, 1, "./cache/", fs),
               path_split[Len(path_split)], Split(response, CRLF), write_ok)

store_path(path, response, fs, write_ok) ==
    IF ~Ok(path) THEN [exc |-> path.exc, fs |-> fs]
    ELSE store_at(Split(path.val, "/"), response, fs, write_ok)

\* The result is [exc, fs]: the exception raised, if any, and the filesystem left.
store_response_in_cache(req, response, fs, write_ok) ==
    store_path(cache_path(req), response, fs, write_ok)

(***************************************************************************)
(* OriginClient: send_request_to_server.  origin is what the origin does   *)
(* on this connection: [connect, send, read \in {"ok", "fail"}, response]. *)
(* The result is [exc, val, opened]: opened counts the origin connections. *)
(***************************************************************************)
send_request_to_server(req, origin) ==
    IF origin.connect = "fail" THEN [exc |-> "none", val |-> None, opened |-> 0]
    ELSE IF "url_parsed" \notin InstanceAttributes
    THEN [exc |-> "AttributeError", val |-> None, opened |-> 1]
    ELSE IF origin.send = "fail" THEN [exc |-> "none", val |-> None, opened |-> 1]
    ELSE IF origin.read = "fail" THEN [exc |-> "none", val |-> None, opened |-> 1]
    ELSE [exc |-> "none", val |-> PyStr(origin.response), opened |-> 1]

(***************************************************************************)
(* ConnectionHandler: handle_request.  env is the environment of one       *)
(* connection: [recv \in {"ok", "error"}, request, origin, disk_ok].       *)
(* client_socket.send and client_socket.close succeed.  The result of a    *)
(* block is an Outcome: the responses sent on the client socket, whether   *)
(* the handler closed the socket, the exception that left the handler      *)
(* ("none" when it returned), the filesystem it left and the number of     *)
(* origin connections it opened.                                           *)
(***************************************************************************)
Outcome(sent, closed, exc, fs, opened) ==
    [sent |-> sent, closed |-> closed, exc |-> exc, fs |-> fs, opened |-> opened,
     events |-> <<>>]

\* The outcome o with the calls made on the client socket, in their order.
Logged(o, events) == [o EXCEPT !.events = events]

\* send_and_close with the socket closed before the response is sent.
close_and_send(response, fs, opened) ==
    IF ~Ok(response) THEN Outcome(<<>>, FALSE, response.exc, fs, opened)
    ELSE Logged(Outcome(<<response.val>>, TRUE, "none", fs, opened), <<"close", "send">>)

\* client_socket.send(response.encode()), then the close of line 296; an exception
\* raised while the response was built leaves the handler instead.
send_and_close(response, fs, opened) ==
    IF ~Ok(response) THEN Outcome(<<>>, FALSE, response.exc, fs, opened)
    ELSE Logged(Outcome(<<response.val>>, TRUE, "none", fs, opened), <<"send", "close">>)

\* Lines 275-278
store_and_send(stored, response, opened) ==
    IF stored.exc # "none" THEN Outcome(<<>>, FALSE, stored.exc, stored.fs, opened)
    ELSE send_and_close(add_length_and_cache_to_header(response, FALSE), stored.fs, opened)

\* Lines 272-296, given the value get_status_code returned.
handle_status(status_code, req, response, env, fs, opened) ==
    IF ~Ok(status_code) THEN Outcome(<<>>, FALSE, status_code.exc, fs, opened)
    ELSE IF py_eq(status_code.val, PyInt(200))
    THEN store_and_send(store_response_in_cache(req, response, fs, env.disk_ok),
                        response, opened)
    ELSE IF py_eq(status_code.val, PyInt(404))
    THEN send_and_close(add_length_and_cache_to_header(response, FALSE), fs, opened)
    ELSE send_and_close(create_500_response(PyStr(response)), fs, opened)

\* Lines 270-296: the origin answered with `response`.
handle_response(req, response, env, fs, opened) ==
    handle_status(get_status_code(response), req, response, env, fs, opened)

\* Lines 260-296, given the value send_request_to_server returned.
handle_fetched(response_from_server, req, env, fs) ==
    IF response_from_server.exc # "none"
    THEN Outcome(<<>>, FALSE, response_from_server.exc, fs, response_from_server.opened)
    ELSE IF py_eq(response_from_server.val, None)
    THEN send_and_close(create_500_response(None), fs, response_from_server.opened)
    ELSE handle_response(req, response_from_server.val.v, env, fs,
                         response_from_server.opened)

\* Lines 248-254, given the value get_response_from_cache returned.
handle_hit(cached_response, fs) ==
    IF ~Ok(cached_response) THEN Outcome(<<>>, FALSE, cached_response.exc, fs, 0)
    ELSE send_and_close(add_length_and_cache_to_header(cached_response.val, TRUE), fs, 0)

\* handle_lookup with the origin asked whether or not the file is in the cache.
handle_lookup_always_fetching(in_cache, req, env, fs) ==
    IF ~Ok(in_cache) THEN Outcome(<<>>, FALSE, in_cache.exc, fs, 0)
    ELSE handle_fetched(send_request_to_server(req, env.origin), req, env, fs)

\* Lines 247-296, given the value check_file_in_cache returned.
handle_lookup(in_cache, req, env, fs) ==
    IF ~Ok(in_cache) THEN Outcome(<<>>, FALSE, in_cache.exc, fs, 0)
    ELSE IF in_cache.val THEN handle_hit(get_response_from_cache(req, fs, env.disk_ok), fs)
    ELSE handle_fetched(send_request_to_server(req, env.origin), req, env, fs)

\* Lines 247-296: the request was parsed into req.
handle_parsed(req, env, fs) == handle_lookup(check_file_in_cache(req, fs), req, env, fs)

\* Lines 245-296, given the value parse_request returned.
handle_valid(parsed, env, fs) ==
    IF ~Ok(parsed) THEN Outcome(<<>>, FALSE, parsed.exc, fs, 0)
    ELSE handle_parsed(parsed.val, env, fs)

\* Lines 238-296: the request was received and logged.
handle_received(request, env, fs) ==
    IF ~check_request_validity(request)
    THEN send_and_close(create_500_response(None), fs, 0)
    ELSE handle_valid(parse_request(request), env, fs)

\* Lines 236-296, given the value of the string line 236 builds for print: the
\* sum of a str and request.encode(), a bytes value.
handle_logged(logged, env, fs) ==
    IF ~Ok(logged) THEN Outcome(<<>>, FALSE, logged.exc, fs, 0)
    ELSE handle_received(env.request, env, fs)

\* Lines 225-296: the whole handler.
handle_request(env, fs) ==
    IF env.recv = "error" THEN Logged(Outcome(<<>>, TRUE, "none", fs, 0), <<"close">>)
    ELSE handle_logged(py_add(PyStr("Request received from client:\n"),
                              PyBytes(env.request)), env, fs)

\* accept_connection (lines 193-203) catches socket.error only: any other exception
\* ends the process, as does sys.exit.
after_handler(exc) ==
    IF exc = "none" \/ exc \in OSErrors THEN "running"
    ELSE IF exc = "SystemExit" THEN "exited"
    ELSE "crashed"

(***************************************************************************)
(* The inputs: what clients send and what origins do.                      *)
(***************************************************************************)
Requests ==
    { "GET http://h/p HTTP/1.0\r\n\r\n",
      "GET http://h:81/p HTTP/1.0\r\n\r\n",
      "GET http://h/p HTTP/1.1\r\nHost: h\r\n\r\n",
      "POST http://h/p HTTP/1.0\r\n\r\n",
      "GET http://h/p\r\n\r\nHTTP/1.0",
      "GET\r\nhttp://h/p\r\nHTTP/1.0",
      "GET \r\nhttp://h/p \r\nHTTP/1.0",
      "GET \r\nhttp://h:81/p \r\nHTTP/1.0",
      "GET \r\nhttp://h:81/q \r\nHTTP/1.1",
      "GET \r\nhttp://h:81/p \r\nHTTP/2.0",
      "GET \r\nftp://h:81/p \r\nHTTP/1.0",
      "" }

OriginResponses ==
    { "HTTP/1.0 200 OK\r\n\r\nhello",
      "HTTP/1.0 200 OK\r\nContent-Length: 5\r\nConnection: close\r\n\r\nhello",
      "HTTP/1.0 200 OK\r\nProxy-Connection: close\r\n\r\nhi",
      "HTTP/1.0 200 OK\r\n\r\nhel\r\nlo",
      "HTTP/1.0 404 Not Found\r\n\r\nnope",
      "HTTP/1.0 503 Busy\r\nA: b\r\n\r\nbody",
      "HTTP/1.0 503 Busy\r\nA: b\r\n\r\nbo\r\ndy",
      "HTTP/1.0 200 OK",
      "" }

Origins ==
    { [connect |-> "fail", send |-> "ok", read |-> "ok", response |-> ""],
      [connect |-> "ok", send |-> "fail", read |-> "ok", response |-> ""],
      [connect |-> "ok", send |-> "ok", read |-> "fail", response |-> ""] }
    \cup { [connect |-> "ok", send |-> "ok", read |-> "ok", response |-> r] :
              r \in OriginResponses }

NoOrigin == [connect |-> "fail", send |-> "ok", read |-> "ok", response |-> ""]
OkOrigin ==
    [connect |-> "ok", send |-> "ok", read |-> "ok", response |-> "HTTP/1.0 200 OK\r\n\r\nhello"]

\* The requests that pass check_request_validity and parse_request: the ones for
\* which the handler goes on to the cache and the origin.
FetchingRequests == {r \in Requests : check_request_validity(r) /\ Ok(parse_request(r))}

\* A connection on which recv fails; every request with an origin that answers; the
\* requests that reach the origin with every behaviour of the origin.
Envs ==
    { [recv |-> "error", request |-> "", origin |-> NoOrigin, disk_ok |-> TRUE] }
    \cup { [recv |-> "ok", request |-> r, origin |-> OkOrigin, disk_ok |-> TRUE] :
              r \in Requests }
    \cup { [recv |-> "ok", request |-> r, origin |-> o, disk_ok |-> TRUE] :
              r \in FetchingRequests, o \in Origins }

\* The requests parse_request returns from.
ParsedRequests == {parse_request(r).val : r \in {q \in Requests : Ok(parse_request(q))}}

\* hostname + path, the cache key of a parsed request.
key_of(req) == From(cache_path(req).val, Len("./cache/"))

\* Whether `response` has the status code 200 in its status line.
is_200(response) == Ok(get_status_code(response)) /\ get_status_code(response).val.v = "200"

\* The cache keys for which a block receives an origin response with status 200.
keys_200_fetched(in_cache, fetched, req) ==
    IF Ok(in_cache) /\ ~in_cache.val /\ fetched.exc = "none" /\ fetched.val.t = "str"
       /\ is_200(fetched.val.v)
    THEN {key_of(req)} ELSE {}

keys_200_parsed(parsed, env, fs) ==
    IF Ok(parsed)
    THEN keys_200_fetched(check_file_in_cache(parsed.val, fs),
                          send_request_to_server(parsed.val, env.origin), parsed.val)
    ELSE {}

keys_200_received(request, env, fs) ==
    IF check_request_validity(request) THEN keys_200_parsed(parse_request(request), env, fs)
    ELSE {}

keys_200_request(env, fs) ==
    IF env.recv = "ok" /\ Ok(py_add(PyStr(""), PyBytes(env.request)))
    THEN keys_200_received(env.request, env, fs) ELSE {}

(***************************************************************************)
(* The state of the model.  out describes the handler block run last:      *)
(* which block, the parsed request it was given (handle_response), what    *)
(* it sent, whether it closed the client socket, the exception that left   *)
(* it, the origin connections it opened, and got200 and the filesystem as  *)
(* they were before it ran.                                                *)
(***************************************************************************)
NoEnv == [recv |-> "none", request |-> "", origin |-> NoOrigin, disk_ok |-> TRUE]
NoReq == [request_method |-> "", request_version |-> "", request_url_parsed |-> urlparse("")]
NoOut == [block |-> "none", req |-> NoReq, sent |-> <<>>, closed |-> FALSE, exc |-> "none",
          opened |-> 0, prior200 |-> {}, prior_fs |-> FreshFs, events |-> <<>>]
NoCall == [fn |-> "none"]

fs_now == [files |-> cache, dirs |-> dirs]

\* The record of a block that was given env (and req) and ended with outcome o.
Ran(block, req, o) ==
    [block |-> block, req |-> req, sent |-> o.sent, closed |-> o.closed, exc |-> o.exc,
     opened |-> o.opened, prior200 |-> got200, prior_fs |-> fs_now, events |-> o.events]

\* The state after construction (lines 109-113): ./cache exists, nothing is cached.
Init ==
    /\ proc = "running"
    /\ pc = "accept"
    /\ nconn = 0
    /\ conn = NoEnv
    /\ out = NoOut
    /\ cache = FreshFs.files
    /\ dirs = FreshFs.dirs
    /\ got200 = {}
    /\ call = NoCall

(***************************************************************************)
(* Spec: the program as main() runs it.  The accept loop takes one         *)
(* connection at a time and runs handle_request on it.                     *)
(***************************************************************************)
\* socket.accept() returns a client socket (line 194).
Accept(env) ==
    /\ proc = "running"
    /\ pc = "accept"
    /\ nconn < MaxConns
    /\ pc' = "handle"
    /\ nconn' = nconn + 1
    /\ conn' = env
    /\ out' = NoOut
    /\ UNCHANGED <<proc, cache, dirs, got200, call>>

\* The effect of a handler block that ended with outcome o.
Finish(block, req, o, keys200) ==
    /\ out' = Ran(block, req, o)
    /\ cache' = o.fs.files
    /\ dirs' = o.fs.dirs
    /\ got200' = got200 \cup keys200
    /\ proc' = after_handler(o.exc)
    /\ pc' = "accept"

\* self.handle_request(client_socket) (line 200), to its return or its exception.
HandleRequest ==
    /\ proc = "running"
    /\ pc = "handle"
    /\ Finish("handle_request", NoReq, handle_request(conn, fs_now),
              keys_200_request(conn, fs_now))
    /\ UNCHANGED <<nconn, conn, call>>

Next == (\E env \in Envs : Accept(env)) \/ HandleRequest

Spec == Init /\ [][Next]_vars

(***************************************************************************)
(* HandlerSpec: the blocks of handle_request that follow line 236, each    *)
(* run on a connection of its own over the cache the earlier ones left:    *)
(* lines 238-296 on a received request, lines 270-296 on a parsed request  *)
(* and the response of its origin.                                         *)
(***************************************************************************)
ReceivedEnvs == {env \in Envs : env.recv = "ok"}
AnsweringEnvs == {env \in ReceivedEnvs : env.origin.response \in OriginResponses}

Received(env) ==
    /\ proc = "running"
    /\ pc = "accept"
    /\ nconn < MaxConns
    /\ nconn' = nconn + 1
    /\ conn' = env
    /\ Finish("handle_received", NoReq, handle_received(env.request, env, fs_now),
              keys_200_received(env.request, env, fs_now))
    /\ UNCHANGED call

\* Lines 270-296 run when the lookup of line 247 missed and the origin answered.
Responded(req, env) ==
    /\ proc = "running"
    /\ pc = "accept"
    /\ nconn < MaxConns
    /\ check_file_in_cache(req, fs_now) = Ret(FALSE)
    /\ nconn' = nconn + 1
    /\ conn' = env
    /\ Finish("handle_response", req,
              handle_response(req, env.origin.response, env, fs_now, 1),
              IF is_200(env.origin.response) THEN {key_of(req)} ELSE {})
    /\ UNCHANGED call

RespondedTo(env) ==
    /\ check_request_validity(env.request)
    /\ Ok(parse_request(env.request))
    /\ Responded(parse_request(env.request).val, env)

HandlerNext ==
    \/ \E env \in ReceivedEnvs : Received(env)
    \/ \E env \in AnsweringEnvs : RespondedTo(env)

HandlerSpec == Init /\ [][HandlerNext]_vars

(***************************************************************************)
(* UnitSpec: the methods called one at a time on the inputs, the cache     *)
(* methods over the filesystem the earlier calls left.                     *)
(***************************************************************************)
Texts == OriginResponses \cup {"hello", "a\r\n"}

\* The responses line 275 passes to store_response_in_cache: those with status 200.
StoredResponses == {r \in OriginResponses : is_200(r)}

Called(fn, arg, res) ==
    /\ proc = "running"
    /\ call' = [fn |-> fn, arg |-> arg, res |-> res]

Call_check_request_validity(request) ==
    /\ Called("check_request_validity", request, check_request_validity(request))
    /\ UNCHANGED <<proc, pc, nconn, conn, out, cache, dirs, got200>>

Call_parse_request(request) ==
    /\ Called("parse_request", request, parse_request(request))
    /\ UNCHANGED <<proc, pc, nconn, conn, out, cache, dirs, got200>>

Call_get_status_code(response) ==
    /\ Called("get_status_code", response, get_status_code(response))
    /\ UNCHANGED <<proc, pc, nconn, conn, out, cache, dirs, got200>>

Call_add_length_and_cache_to_header(response, in_cache) ==
    /\ Called("add_length_and_cache_to_header", <<response, in_cache>>,
              add_length_and_cache_to_header(response, in_cache))
    /\ UNCHANGED <<proc, pc, nconn, conn, out, cache, dirs, got200>>

Call_create_500_response(response) ==
    /\ Called("create_500_response", response, create_500_response(response))
    /\ UNCHANGED <<proc, pc, nconn, conn, out, cache, dirs, got200>>

Call_check_file_in_cache(req) ==
    /\ Called("check_file_in_cache", req, check_file_in_cache(req, fs_now))
    /\ UNCHANGED <<proc, pc, nconn, conn, out, cache, dirs, got200>>

Call_get_response_from_cache(req) ==
    /\ Called("get_response_from_cache", req, get_response_from_cache(req, fs_now, TRUE))
    /\ UNCHANGED <<proc, pc, nconn, conn, out, cache, dirs, got200>>

Stored(req, response, stored) ==
    /\ Called("store_response_in_cache", <<req, response>>, stored.exc)
    /\ cache' = stored.fs.files
    /\ dirs' = stored.fs.dirs
    /\ UNCHANGED <<proc, pc, nconn, conn, out, got200>>

Call_store_response_in_cache(req, response) ==
    Stored(req, response, store_response_in_cache(req, response, fs_now, TRUE))

UnitNext ==
    \/ \E request \in Requests : Call_check_request_validity(request)
    \/ \E request \in Requests : Call_parse_request(request)
    \/ \E response \in Texts : Call_get_status_code(response)
    \/ \E response \in Texts, in_cache \in BOOLEAN :
          Call_add_length_and_cache_to_header(response, in_cache)
    \/ \E response \in {None} \cup {PyStr(t) : t \in Texts} : Call_create_500_response(response)
    \/ \E req \in ParsedRequests : Call_check_file_in_cache(req)
    \/ \E req \in ParsedRequests : Call_get_response_from_cache(req)
    \/ \E req \in ParsedRequests, response \in StoredResponses :
          Call_store_response_in_cache(req, response)

UnitSpec == Init /\ [][UnitNext]_vars

(***************************************************************************)
(* get_port_num and the exit status of the process.                        *)
(***************************************************************************)
\* argv is sys.argv: the name of the script, then the arguments.
get_port_num(argv) ==
    IF Len(argv) < 2 THEN Raise("SystemExit")
    ELSE IF argv[2] = "" \/ ~IsDigits(argv[2]) THEN Raise("ValueError")
    ELSE Ret(PyInt(int(argv[2])))

\* The exit status of a process that ended: every sys.exit() the model reaches
\* (lines 515, 633, 649) is called without an argument, which is status 0; an
\* uncaught exception ends the interpreter with status 1.
exit_status(p) == IF p = "exited" THEN 0 ELSE 1

(***************************************************************************)
(* CacheSpec: the cache methods called one at a time, as handle_request    *)
(* calls them, and lines 238-296 of the handler run on a connection, all   *)
(* over the files the earlier calls left; get_port_num on an argv.  An     *)
(* exception that leaves a call arrives at accept_connection.              *)
(***************************************************************************)
CacheUrls ==
    { "GET \r\nhttp://h:81/p \r\nHTTP/1.0",
      "GET \r\nhttp://h:82/p?x=1 \r\nHTTP/1.0",
      "GET \r\nhttp://cache:81/h/p \r\nHTTP/1.0",
      "GET \r\nhttp://h:81 \r\nHTTP/1.0",
      "GET \r\nhttp://h:81/ \r\nHTTP/1.0" }

CacheRequests == {parse_request(r).val : r \in CacheUrls}

CacheResponses ==
    { "HTTP/1.0 200 OK\r\n\r\nhello",
      "HTTP/1.0 200 OK\r\nA: b\r\n\r\n",
      "HTTP/1.0 200 OK" }

CacheEnvs ==
    { [recv |-> "ok", request |-> r, origin |-> o, disk_ok |-> TRUE] :
          r \in CacheUrls \cup {"POST http://h/p HTTP/1.0\r\n\r\n"},
          o \in {OkOrigin, NoOrigin} }

Argvs == { <<"proxy.py">>, <<"proxy.py", "8080">>, <<"proxy.py", "x">> }

\* The record of a call and what it leaves: the exception decides whether the
\* process goes on.
CacheCalled(fn, req, arg, ok, res, exc, fs) ==
    /\ proc = "running"
    /\ call' = [fn |-> fn, req |-> req, arg |-> arg, ok |-> ok, res |-> res, exc |-> exc,
                prior_fs |-> fs_now,
                repeat |-> (call.fn = fn /\ call.req = req /\ call.arg = arg)]
    /\ cache' = fs.files
    /\ dirs' = fs.dirs
    /\ proc' = after_handler(exc)
    /\ out' = NoOut
    /\ conn' = NoEnv
    /\ UNCHANGED <<pc, nconn, got200>>

CacheChecked(req, in_cache) ==
    CacheCalled("check_file_in_cache", req, "", TRUE, in_cache.val, in_cache.exc, fs_now)

CacheCheck(req) == CacheChecked(req, check_file_in_cache(req, fs_now))

CacheGot(req, read_ok, cached_response) ==
    CacheCalled("get_response_from_cache", req, "", read_ok, cached_response.val,
                cached_response.exc, fs_now)

CacheRead(req, read_ok) == CacheGot(req, read_ok, get_response_from_cache(req, fs_now, read_ok))

CacheStored(req, response, write_ok, stored) ==
    CacheCalled("store_response_in_cache", req, response, write_ok, None, stored.exc,
                stored.fs)

CacheStore(req, response, write_ok) ==
    CacheStored(req, response, write_ok,
                store_response_in_cache(req, response, fs_now, write_ok))

GotPort(argv, port_num) ==
    CacheCalled("get_port_num", NoReq, argv, TRUE, port_num.val, port_num.exc, fs_now)

GetPortNum(argv) == GotPort(argv, get_port_num(argv))

\* Lines 238-296 on a connection, over the files the calls left.
CacheReceived(env) ==
    /\ proc = "running"
    /\ pc = "accept"
    /\ conn' = env
    /\ Finish("handle_received", NoReq, handle_received(env.request, env, fs_now),
              keys_200_received(env.request, env, fs_now))
    /\ call' = NoCall
    /\ UNCHANGED nconn

\* Lines 270-296 on a connection whose lookup missed and whose origin answered.
CacheAnswers ==
    { "HTTP/1.0 200 OK\r\n\r\nhello",
      "HTTP/1.0 404 Not Found\r\n\r\nnope",
      "HTTP/1.0 503 Busy\r\nA: b\r\n\r\nbody" }

CacheAnswered(req, env) ==
    /\ proc = "running"
    /\ pc = "accept"
    /\ check_file_in_cache(req, fs_now) = Ret(FALSE)
    /\ conn' = env
    /\ Finish("handle_response", req,
              handle_response(req, env.origin.response, env, fs_now, 1),
              IF is_200(env.origin.response) THEN {key_of(req)} ELSE {})
    /\ call' = NoCall
    /\ UNCHANGED nconn

CacheResponded(response) ==
    CacheAnswered(parse_request("GET \r\nhttp://h:81/p \r\nHTTP/1.0").val,
                  [recv |-> "ok", request |-> "GET \r\nhttp://h:81/p \r\nHTTP/1.0",
                   origin |-> [connect |-> "ok", send |-> "ok", read |-> "ok",
                               response |-> response],
                   disk_ok |-> TRUE])

CacheNext ==
    \/ \E req \in CacheRequests : CacheCheck(req)
    \/ \E req \in CacheRequests, read_ok \in BOOLEAN : CacheRead(req, read_ok)
    \/ \E req \in CacheRequests, response \in CacheResponses, write_ok \in BOOLEAN :
          CacheStore(req, response, write_ok)
    \/ \E argv \in Argvs : GetPortNum(argv)
    \/ \E env \in CacheEnvs : CacheReceived(env)
    \/ \E response \in CacheAnswers : CacheResponded(response)

CacheSpec == Init /\ [][CacheNext]_vars

(***************************************************************************)
(* Reading a message: its header block is the text before the first blank  *)
(* line, its body the text after it.                                       *)
(***************************************************************************)
BlankAt(m) == Find(m, "\r\n\r\n")
HeaderLines(m) ==
    IF BlankAt(m) = 0 THEN Split(m, CRLF) ELSE Split(SubSeq(m, 1, BlankAt(m) - 1), CRLF)
BodyOf(m) == IF BlankAt(m) = 0 THEN "" ELSE From(m, BlankAt(m) + 3)
StatusLine(m) == HeaderLines(m)[1]
StatusCodeOf(m) == IF Len(Fields(StatusLine(m))) >= 2 THEN Fields(StatusLine(m))[2] ELSE ""

HeaderName(line) == IF Find(line, ":") = 0 THEN line ELSE SubSeq(line, 1, Find(line, ":") - 1)
HeaderValue(line) == IF Find(line, ":") = 0 THEN "" ELSE Strip(From(line, Find(line, ":")))
HasHeader(m, name) == \E i \in 2..Len(HeaderLines(m)) : HeaderName(HeaderLines(m)[i]) = name
HasHeaderLine(m, line) == \E i \in 2..Len(HeaderLines(m)) : HeaderLines(m)[i] = line
HasConnectionClose(m) ==
    \E i \in 2..Len(HeaderLines(m)) :
        /\ HeaderName(HeaderLines(m)[i]) = "Connection"
        /\ HeaderValue(HeaderLines(m)[i]) = "close"
LastHeaderLine(m) == HeaderLines(m)[Len(HeaderLines(m))]

\* A message that starts with a status line: a version, then a status code of three digits.
WellFormed(m) ==
    /\ Upto(StatusLine(m), 5) = "HTTP/"
    /\ Len(StatusCodeOf(m)) = 3
    /\ IsDigits(StatusCodeOf(m))

Line500 == "HTTP/1.1 500 Internal Server Error"

\* The fixed 500 response built without an origin response.
IsNull500(m) ==
    /\ HeaderLines(m) = <<Line500, "Content-Length: 0", "Connection: close", "Cache-Hit: 0">>
    /\ BlankAt(m) # 0
    /\ BodyOf(m) = ""

\* The handler ran on the current connection and finished.
Handled == out.block # "none"

\* The handler was given a valid request that parse_request parsed.
ParsedValid ==
    /\ conn.recv = "ok"
    /\ check_request_validity(conn.request)
    /\ Ok(parse_request(conn.request))

\* The cache key of the request of the current connection.
conn_key == key_of(parse_request(conn.request).val)

\* A cache entry for a key: the file check_file_in_cache looks for.
HasEntry(fs, key) == is_file(fs, "./cache/" \o key)

Keys == {key_of(req) : req \in ParsedRequests}

(***************************************************************************)
(* The properties.                                                         *)
(***************************************************************************)
\* C1: once an origin response with status 200 was received for a key, every later
\* connection with a valid request for that key is answered from the cache: one
\* response carrying Cache-Hit: 1 is sent and no origin connection is opened.
C1_LaterRequestServedFromCache ==
    (out.block = "handle_received" /\ ParsedValid /\ conn_key \in out.prior200)
        => /\ Len(out.sent) = 1
           /\ HasHeaderLine(out.sent[1], "Cache-Hit: 1")
           /\ out.opened = 0

\* C2: on every connection whose receive succeeds, handle_request sends a response
\* that starts with a parseable status line before the connection ends.
C2_ResponseOnEveryPath ==
    (out.block = "handle_request" /\ conn.recv = "ok")
        => /\ Len(out.sent) >= 1
           /\ WellFormed(out.sent[1])

\* C3: in every state a cache entry exists for a key if and only if an earlier
\* connection received an origin response with status 200 for that key, and a
\* connection that received none leaves the cache as it was.
C3_EntryIffStatus200 ==
    /\ \A key \in Keys : HasEntry(fs_now, key) <=> key \in got200
    /\ (Handled /\ got200 = out.prior200) => fs_now = out.prior_fs

\* C4: when the origin answers a request that missed the cache with status 404, the
\* response sent is the origin's response with its status line unchanged and
\* Cache-Hit: 0, and no cache entry is created for the request's key.
C4_NotFoundForwarded ==
    (out.block = "handle_response" /\ StatusCodeOf(conn.origin.response) = "404")
        => /\ Len(out.sent) = 1
           /\ StatusLine(out.sent[1]) = StatusLine(conn.origin.response)
           /\ HasHeaderLine(out.sent[1], "Cache-Hit: 0")
           /\ ~HasEntry(fs_now, key_of(out.req))

\* C5: every accepted connection reaches Closed: when the accept loop is back at
\* accept, the handler it ran returned and closed the client socket.
C5_ConnectionReachesClosed ==
    (out.block = "handle_request" /\ pc = "accept")
        => /\ out.exc = "none"
           /\ out.closed

\* The validity the specification states: exactly 3 CRLF-delimited lines, the first
\* field of line 1 "GET", the second field of line 1 containing "http://", and the
\* version (the third line, or the third field of line 1) in the allowed set.
Versions == {"HTTP/1.1", "HTTP/1.0", "HTTP/0.9"}
ClaimedTarget(fields) ==
    /\ Len(fields) >= 2
    /\ fields[1] = "GET"
    /\ Contains("http://", fields[2])
ClaimedVersion(fields, lines) ==
    \/ Strip(lines[3]) \in Versions
    \/ Len(fields) >= 3 /\ fields[3] \in Versions
ClaimedLines(lines) ==
    /\ Len(lines) = 3
    /\ ClaimedTarget(Fields(lines[1]))
    /\ ClaimedVersion(Fields(lines[1]), lines)
ClaimedValid(request) == ClaimedLines(Split(request, CRLF))

\* C6: check_request_validity(R) is true if and only if R has exactly 3 CRLF-delimited
\* lines, the method token of line 1 is "GET", the version is an allowed one and the
\* second field of line 1 contains "http://".
C6_ValidityIff ==
    call.fn = "check_request_validity" => (call.res <=> ClaimedValid(call.arg))

\* C7: when the received request fails the validity check, the handler sends exactly
\* the fixed 500 response, opens no origin connection, leaves the cache as it was and
\* closes the connection.
C7_InvalidRequestGets500 ==
    (out.block = "handle_request" /\ conn.recv = "ok"
        /\ ~check_request_validity(conn.request))
        => /\ Len(out.sent) = 1
           /\ IsNull500(out.sent[1])
           /\ out.opened = 0
           /\ fs_now = out.prior_fs
           /\ out.closed

\* C8: for a valid request that misses the cache, when the origin's connect, send or
\* read fails, the handler sends the fixed 500 response, writes nothing to the cache
\* and closes the connection.
C8_OriginFailureGets500 ==
    (out.block = "handle_received" /\ ParsedValid
        /\ ~HasEntry(out.prior_fs, conn_key)
        /\ "fail" \in {conn.origin.connect, conn.origin.send, conn.origin.read})
        => /\ Len(out.sent) = 1
           /\ IsNull500(out.sent[1])
           /\ fs_now = out.prior_fs
           /\ out.closed

\* Every header line of the message `original` after its status line is a header
\* line of the message `sent`.
KeepsHeaders(sent, original) ==
    \A i \in 2..Len(HeaderLines(original)) : HasHeaderLine(sent, HeaderLines(original)[i])

\* C9: when the origin answers a request that missed the cache with a status other
\* than 200 and 404, the response sent has the status line of the 500 response, every
\* other header line and the body of the origin's response, and Cache-Hit: 0, and no
\* cache entry is written.
C9_OtherStatusRewritten ==
    (out.block = "handle_response" /\ WellFormed(conn.origin.response)
        /\ BlankAt(conn.origin.response) # 0
        /\ StatusCodeOf(conn.origin.response) \notin {"200", "404"})
        => /\ Len(out.sent) = 1
           /\ StatusLine(out.sent[1]) = Line500
           /\ KeepsHeaders(out.sent[1], conn.origin.response)
           /\ BodyOf(out.sent[1]) = BodyOf(conn.origin.response)
           /\ HasHeaderLine(out.sent[1], "Cache-Hit: 0")
           /\ fs_now = out.prior_fs

\* C10: every response sent to a client has, before its blank line, a Content-Length
\* header, a "Connection: close" header, and as its last header line a Cache-Hit
\* header with the value 0 or 1.
C10_ResponseHeaders ==
    \A i \in 1..Len(out.sent) :
        /\ BlankAt(out.sent[i]) # 0
        /\ HasHeader(out.sent[i], "Content-Length")
        /\ HasConnectionClose(out.sent[i])
        /\ LastHeaderLine(out.sent[i]) \in {"Cache-Hit: 0", "Cache-Hit: 1"}

\* The lookup of line 247 hit: the request of the connection is valid and the file
\* of its key was in the cache when the handler began.
HitBefore == ParsedValid /\ HasEntry(out.prior_fs, conn_key)

\* The content of the cache file of the request, as it was when the handler began.
CachedBody == out.prior_fs.files[NormPath("./cache/" \o conn_key)]

HasLine(m, line) == \E i \in 1..Len(HeaderLines(m)) : HeaderLines(m)[i] = line

\* C11: a body written to the cache, read back and normalized with hit=true
\* completes and yields a response with a Cache-Hit: 1 header and a Content-Length
\* header equal to the length of the body.
C11_RoundTripNormalizes ==
    (out.block = "handle_received" /\ HitBefore)
        => /\ out.exc = "none"
           /\ Len(out.sent) = 1
           /\ HasLine(out.sent[1], "Cache-Hit: 1")
           /\ HasLine(out.sent[1], "Content-Length: " \o str(Len(CachedBody)))

\* A call of store_response_in_cache returned.
StoredNow == call.fn = "store_response_in_cache" /\ call.exc = "none"

\* C12: after store_response_in_cache stored a response for a request, the entry is
\* where the lookups look: check_file_in_cache for the request returns true and
\* get_response_from_cache returns the body of the stored response.
C12_StoredWhereLookedUp ==
    StoredNow
        => /\ check_file_in_cache(call.req, fs_now) = Ret(TRUE)
           /\ get_response_from_cache(call.req, fs_now, TRUE) = Ret(BodyOf(call.arg))

\* The call made last ran into the failure of a cache read (lines 513-515), of a
\* cache write (lines 630-633) or of a missing port argument (lines 647-649).
FatalFailure ==
    \/ call.fn = "get_response_from_cache" /\ call.exc = "SystemExit"
    \/ call.fn = "store_response_in_cache" /\ call.exc = "SystemExit"
    \/ call.fn = "get_port_num" /\ Len(call.arg) < 2

\* C13: when a cache read fails, a cache write fails or no port argument is given,
\* the process terminates with a non-zero exit status.
C13_FailureExitsNonZero ==
    FatalFailure
        => /\ proc # "running"
           /\ exit_status(proc) # 0

\* The target of a valid request, its second line, read as text: after "://" the
\* authority up to the first "/" or "?", host before ":" and port after it, then
\* the path up to "?".
TargetOf(request) == Strip(Split(request, CRLF)[2])
AfterScheme(target) == From(target, Find(target, "://") + 2)
AuthorityOf(target) ==
    SubSeq(AfterScheme(target), 1, FirstOf(AfterScheme(target), {"/", "?"}) - 1)
ClaimedHost(target) ==
    IF Find(AuthorityOf(target), ":") = 0 THEN AuthorityOf(target)
    ELSE SubSeq(AuthorityOf(target), 1, Find(AuthorityOf(target), ":") - 1)
ClaimedPort(target) ==
    IF Find(AuthorityOf(target), ":") = 0 THEN 80
    ELSE int(From(AuthorityOf(target), Find(AuthorityOf(target), ":")))
ClaimedPath(target) ==
    SubSeq(AfterScheme(target), Len(AuthorityOf(target)) + 1,
           FirstOf(AfterScheme(target), {"?"}) - 1)

\* C14: for a valid request parse_request completes and yields the hostname and the
\* path of the target and its port, 80 when the target gives none.
C14_ParseDefaultsPort80 ==
    (call.fn = "parse_request" /\ check_request_validity(call.arg))
        => /\ Ok(call.res)
           /\ hostname(call.res.val.request_url_parsed) = PyStr(ClaimedHost(TargetOf(call.arg)))
           /\ port(call.res.val.request_url_parsed) = Ret(PyInt(ClaimedPort(TargetOf(call.arg))))
           /\ call.res.val.request_url_parsed.path = ClaimedPath(TargetOf(call.arg))

\* C15: storing the same response for the same request a second time leaves the
\* cache as the first store left it, and a read of the key gives what it gave after
\* the first store.
C15_SecondStoreIdempotent ==
    /\ StoredNow
          => store_response_in_cache(call.req, call.arg, fs_now, TRUE)
                 = [exc |-> "none", fs |-> fs_now]
    /\ (call.fn = "store_response_in_cache" /\ call.repeat)
          => /\ fs_now = call.prior_fs
             /\ get_response_from_cache(call.req, fs_now, TRUE)
                    = get_response_from_cache(call.req, call.prior_fs, TRUE)

\* The same response was stored for the same request twice in a row, and the file
\* written holds its body.
C15_StoredTwice ==
    /\ StoredNow
    /\ call.repeat
    /\ BodyOf(call.arg) # ""
    /\ \E f \in DOMAIN cache : cache[f] = BodyOf(call.arg)

SameHostAndPath(r1, r2) ==
    /\ hostname(r1.request_url_parsed) = hostname(r2.request_url_parsed)
    /\ r1.request_url_parsed.path = r2.request_url_parsed.path

\* The store made last created the entry that the lookup for req finds.
FindsStored(req) ==
    /\ check_file_in_cache(req, fs_now) = Ret(TRUE)
    /\ check_file_in_cache(req, call.prior_fs) = Ret(FALSE)

\* C16: the write, the existence check and the read use hostname + path as the key:
\* after a store for a request into an empty cache, the lookup for a request finds
\* the entry if and only if it has the same hostname and path, whatever its port and
\* query string.
C16_KeyIsHostAndPath ==
    (StoredNow /\ DOMAIN call.prior_fs.files = {})
        => \A req \in CacheRequests : FindsStored(req) <=> SameHostAndPath(req, call.req)

\* The header lines of `original`, status line first, are the first header lines of
\* `sent`, in the same order.
KeepsHeaderBlock(sent, original) ==
    /\ Len(HeaderLines(sent)) >= Len(HeaderLines(original))
    /\ SubSeq(HeaderLines(sent), 1, Len(HeaderLines(original))) = HeaderLines(original)

\* C17: add_length_and_cache_to_header only adds header lines: for a response with a
\* blank line the output keeps the status line and the header lines in their order,
\* and its body is the body of the input, CRLF line terminators included.
C17_NormalizeOnlyAddsHeaders ==
    (call.fn = "add_length_and_cache_to_header" /\ BlankAt(call.arg[1]) # 0)
        => /\ Ok(call.res)
           /\ KeepsHeaderBlock(call.res.val, call.arg[1])
           /\ BodyOf(call.res.val) = BodyOf(call.arg[1])

\* C18: while one connection is handled at most one origin connection is opened,
\* and only for a request that passed the validity check and whose lookup missed:
\* none on the invalid-request path and none on the cache-hit path.
C18_OneOriginConnectionOnMiss ==
    out.block = "handle_received"
        => /\ out.opened <= 1
           /\ out.opened = 1 => (ParsedValid /\ ~HitBefore)
           /\ ~check_request_validity(conn.request) => out.opened = 0
           /\ HitBefore => out.opened = 0

\* The handler opened an origin connection for a valid request that missed a cache
\* that holds entries.
C18_OpenedOnMiss ==
    /\ out.block = "handle_received"
    /\ out.opened = 1
    /\ ParsedValid
    /\ ~HitBefore
    /\ DOMAIN out.prior_fs.files # {}

\* The file store_response_in_cache writes for a request, and its segments.
StoreFile(req) == NormPath("./cache/" \o cache_path(req).val)
StoreSegments(req) == Split(StoreFile(req), "/")

\* The write for req collides with an entry of the other kind in fs: its file is a
\* directory there, or a directory on the way to it is a regular file there.
FinalIsDirectory(req, fs) == dir_at(fs, StoreFile(req))
SegmentIsFile(req, fs) ==
    \E k \in 1..(Len(StoreSegments(req)) - 1) :
        file_at(fs, JoinPath(SubSeq(StoreSegments(req), 1, k)))
Collides(req, fs) == FinalIsDirectory(req, fs) \/ SegmentIsFile(req, fs)

\* C19: a cache write whose path collides with an existing entry of the other kind
\* terminates the process, whether its last component is an existing directory or
\* one of the segments before it is an existing file.
C19_CollisionIsFatal ==
    (call.fn = "store_response_in_cache" /\ Collides(call.req, call.prior_fs))
        => proc # "running"

\* C20: no client input stops the proxy: after a connection on which no cache read
\* or write failed, whatever the client sent and the origin answered, the process
\* is running and the accept loop is back at accept.
C20_NoInputStopsProxy ==
    (out.block = "handle_request" /\ out.exc # "SystemExit")
        => /\ proc = "running"
           /\ pc = "accept"

\* The positions of the send and of the close calls in a sequence of socket calls.
SendCalls(events) == { i \in DOMAIN events : events[i] = "send" }

CloseCalls(events) == { i \in DOMAIN events : events[i] = "close" }

\* C21: on every path through handle_request the client socket receives at
\* most one response, each response sent is one send call, and no send call
\* follows the close of the socket.
C21_AtMostOneSendBeforeClose ==
    out.block \in {"handle_request", "handle_received", "handle_response"} =>
        /\ Len(out.sent) <= 1
        /\ Cardinality(SendCalls(out.events)) = Len(out.sent)
        /\ \A i \in SendCalls(out.events) :
               \A j \in CloseCalls(out.events) : i < j

\* A connection answered from the cache: one response sent, then the close.
C21_SentThenClosed ==
    /\ out.block = "handle_received"
    /\ HitBefore
    /\ Len(out.sent) = 1
    /\ out.events = <<"send", "close">>

====
